---- MODULE Spec2Model ----
(***************************************************************************)
(* Model of the audio synthesizer of src/main.c: the dispatcher loop of    *)
(* main, the capture pipeline grava_audio, the playback pipeline           *)
(* reproduz_audio and the three signal operations low_pass_filter,         *)
(* normalize_audio and moving_average_filter.                              *)
(*                                                                         *)
(* Three specifications share the variables:                               *)
(*   Spec        the program: main polling the two buttons for ever;       *)
(*   SpecFn      normalize_audio and moving_average_filter applied once to *)
(*               an arbitrary buffer of 16-bit samples;                    *)
(*   SpecFilter  low_pass_filter iterated on a constant input.             *)
(***************************************************************************)
EXTENDS Integers, Sequences, FiniteSets

(***************************************************************************)
(* Sizes.  MAX_SAMPLES is 5 * 16000 in the source; the model keeps the     *)
(* loops and shortens the buffer.                                          *)
(***************************************************************************)
MAX_SAMPLES == 6

\* Largest window moving_average_filter is called with.
MaxWindow == 5

\* Number of low_pass_filter applications SpecFilter follows.
MaxFilterSteps == 70

\* pwm_set_wrap(slice, 1023) and the factor of normalize_audio.
PWM_WRAP == 1023

\* adc_read() returns a 12-bit conversion.
ADC_MAX == 4095

\* uint16_t holds values modulo 2^16.
UINT16 == 2^16

Indices == 0 .. (MAX_SAMPLES - 1)

(***************************************************************************)
(* Single-precision arithmetic.  A non-negative float is held as the       *)
(* number of units of 2^-27 it is worth (0.1f is exactly 13421773 units),  *)
(* and that number, which needs up to 44 bits, as a pair <<hi, lo>> worth  *)
(* hi * 2^15 + lo.  Every product and sum of low_pass_filter is a whole    *)
(* number of units, so rounding it to 24 significant bits, to nearest and  *)
(* ties to even, is what the float operation returns.                      *)
(***************************************************************************)
F32Unit == 2^27

Limb == 2^15

\* float alpha = 0.1f, in units of 2^-27.
ALPHA == 13421773

RECURSIVE BitLen(_)
BitLen(n) == IF n = 0 THEN 0 ELSE 1 + BitLen(n \div 2)

Wide(n) == <<n \div Limb, n % Limb>>

Narrow(x) == x[1] * Limb + x[2]

WideAdd(x, y) ==
    LET lo == x[2] + y[2]
    IN  <<x[1] + y[1] + (lo \div Limb), lo % Limb>>

\* m * s for m < 2^28 and s < 2^16.
WideMul(m, s) ==
    LET lo == (m % Limb) * s
    IN  <<(m \div Limb) * s + (lo \div Limb), lo % Limb>>

WideBits(x) == IF x[1] > 0 THEN 15 + BitLen(x[1]) ELSE BitLen(x[2])

\* Round to 24 significant bits, to nearest, ties to even.
F32Round(x) ==
    LET d == WideBits(x) - 24
    IN  IF d <= 0
        THEN x
        ELSE LET q == IF d <= 15
                      THEN x[1] * 2^(15 - d) + (x[2] \div 2^d)
                      ELSE x[1] \div 2^(d - 15)
                 r == IF d <= 15
                      THEN x[2] % 2^d
                      ELSE (x[1] % 2^(d - 15)) * Limb + x[2]
                 half == 2^(d - 1)
                 q1 == IF r > half \/ (r = half /\ q % 2 = 1) THEN q + 1 ELSE q
             IN  IF d <= 15
                 THEN <<q1 \div 2^(15 - d), (q1 % 2^(15 - d)) * 2^d>>
                 ELSE <<q1 * 2^(d - 15), 0>>

\* Conversion of a float to an integer type discards the fraction.
F32Trunc(x) == x[1] \div 2^12

F32Mul(a, n) == F32Round(WideMul(a, n))

F32Add(x, y) == F32Round(WideAdd(x, y))

\* 1.0f - a, as a number of units.
F32OneMinus(a) == Narrow(F32Round(Wide(F32Unit - a)))

(***************************************************************************)
(* uint16_t low_pass_filter(current_sample, prev_sample, alpha):           *)
(*   (uint16_t)(alpha * current_sample + (1.0f - alpha) * prev_sample)     *)
(***************************************************************************)
\* A plausible slip: the two weights exchanged.
low_pass_filter_swapped(current_sample, prev_sample, alpha) ==
    F32Trunc(F32Add(F32Mul(F32OneMinus(alpha), current_sample),
                    F32Mul(alpha, prev_sample))) % UINT16

low_pass_filter(current_sample, prev_sample, alpha) ==
    F32Trunc(F32Add(F32Mul(alpha, current_sample),
                    F32Mul(F32OneMinus(alpha), prev_sample))) % UINT16

(***************************************************************************)
(* void normalize_audio(uint16_t *buffer, int len)                         *)
(***************************************************************************)
\* First loop: max_val, a uint16_t, after entries i .. len-1 have been seen.
RECURSIVE MaxScan(_, _, _, _)
MaxScan(buffer, k, len, max_val) ==
    IF k >= len
    THEN max_val
    ELSE MaxScan(buffer, k + 1, len,
                 IF buffer[k] > max_val THEN buffer[k] ELSE max_val)

\* buffer[i] = (buffer[i] * 1023) / max_val: the product is an int (32 bits,
\* at most 65535 * 1023), the quotient is stored into a uint16_t.
Rescale(v, max_val) == ((v * PWM_WRAP) \div max_val) % UINT16

\* A plausible slip: the product kept in 16 bits.
normalize_audio_16bit(buffer, len) ==
    LET max_val == MaxScan(buffer, 0, len, 0)
    IN  IF max_val = 0
        THEN buffer
        ELSE [k \in DOMAIN buffer |->
                IF k < len
                THEN (((buffer[k] * PWM_WRAP) % UINT16) \div max_val) % UINT16
                ELSE buffer[k]]

\* A plausible slip: scaling to the 12 bits the comment of line 238 names.
normalize_audio_12bit(buffer, len) ==
    LET max_val == MaxScan(buffer, 0, len, 0)
    IN  IF max_val = 0
        THEN buffer
        ELSE [k \in DOMAIN buffer |->
                IF k < len
                THEN ((buffer[k] * ADC_MAX) \div max_val) % UINT16
                ELSE buffer[k]]

normalize_audio(buffer, len) ==
    LET max_val == MaxScan(buffer, 0, len, 0)
    IN  IF max_val = 0
        THEN buffer
        ELSE [k \in DOMAIN buffer |->
                IF k < len THEN Rescale(buffer[k], max_val) ELSE buffer[k]]

(***************************************************************************)
(* uint16_t moving_average_filter(uint16_t *buffer, int index, int window) *)
(***************************************************************************)
\* The for loop from i = k to index + window: <<sum, count>> at its end.
RECURSIVE MovingSum(_, _, _, _, _)
MovingSum(buffer, k, last, sum, count) ==
    IF k > last
    THEN <<sum, count>>
    ELSE IF k >= 0 /\ k < MAX_SAMPLES
         THEN MovingSum(buffer, k + 1, last, sum + buffer[k], count + 1)
         ELSE MovingSum(buffer, k + 1, last, sum, count)

\* A plausible slip: out-of-range positions counted as zero samples.
moving_average_filter_padded(buffer, index, window) ==
    LET sc == MovingSum(buffer, index - window, index + window, 0, 0)
    IN  (sc[1] \div (2 * window + 1)) % UINT16

moving_average_filter(buffer, index, window) ==
    LET sc == MovingSum(buffer, index - window, index + window, 0, 0)
    IN  (sc[1] \div sc[2]) % UINT16

(***************************************************************************)
(* State.                                                                  *)
(***************************************************************************)
VARIABLES
    pc,            \* where main, grava_audio or reproduz_audio stands
    audio_buffer,  \* uint16_t audio_buffer[MAX_SAMPLES]
    i,             \* the loop counter of the running function
    prev,          \* grava_audio's prev
    alpha,         \* grava_audio's alpha, in units of 2^-27
    led_red,       \* level of LED_RED_PIN
    led_green,     \* level of LED_GREEN_PIN
    pwm,           \* channel level of each buzzer
    mic,           \* what adc_read() returns at each iteration of this capture
    raws,          \* history: the readings of the last capture, in order
    stored,        \* history: the positions the last capture has stored into
    writes,        \* history: the <<pin, level>> writes of the running playback
    buf0,          \* history: audio_buffer when the last call began
    index,         \* SpecFn: argument of moving_average_filter
    window,        \* SpecFn: argument of moving_average_filter
    ret,           \* SpecFn: value moving_average_filter returned
    cin            \* SpecFilter: the constant reading

vars == <<pc, audio_buffer, i, prev, alpha, led_red, led_green, pwm, mic,
          raws, stored, writes, buf0, index, window, ret, cin>>

BUZZER_LEFT == 10

BUZZER_RIGHT == 21

Buzzers == {BUZZER_LEFT, BUZZER_RIGHT}

ZeroBuffer == [k \in Indices |-> 0]

(***************************************************************************)
(* The analog input over one capture: the reading adc_read() returns at    *)
(* each iteration, every one in 0 .. ADC_MAX.                              *)
(***************************************************************************)
Constant(c) == [k \in Indices |-> c]

\* Three readings of 100, then silence.
Burst == [k \in Indices |-> IF k < 3 THEN 100 ELSE 0]

Impulse == [k \in Indices |-> IF k = 0 THEN ADC_MAX ELSE 0]

Ramp == [k \in Indices |-> (k * 819) % (ADC_MAX + 1)]

Square == [k \in Indices |-> IF k % 2 = 0 THEN 0 ELSE ADC_MAX]

\* A full-scale reading at the last iteration only.
LateImpulse == [k \in Indices |-> IF k = MAX_SAMPLES - 1 THEN ADC_MAX ELSE 0]

Decay == [k \in Indices |-> ADC_MAX \div (k + 1)]

Signals ==
    {Constant(0), Constant(5), Constant(10), Constant(100), Constant(1000),
     Constant(ADC_MAX), Burst, Impulse, LateImpulse, Ramp, Decay, Square}

\* gpio_get of a button pin: 0 while the button is held (pull-up).
Levels == {0, 1}

(***************************************************************************)
(* main: after gpio_start, adc_setup and the two pwm_setup calls the LEDs  *)
(* are low, both channel levels are 0 and the static buffer is zero.       *)
(***************************************************************************)
Init ==
    /\ pc = "main_a"
    /\ audio_buffer = ZeroBuffer
    /\ i = 0
    /\ prev = 0
    /\ alpha = ALPHA
    /\ led_red = FALSE
    /\ led_green = FALSE
    /\ pwm = [b \in Buzzers |-> 0]
    /\ mic = ZeroBuffer
    /\ raws = <<>>
    /\ stored = {}
    /\ writes = <<>>
    /\ buf0 = ZeroBuffer
    /\ index = 0
    /\ window = 0
    /\ ret = 0
    /\ cin = 0

\* if (!gpio_get(BTN_A_PIN)) { sleep_ms(200); grava_audio(); }
main_btn_a ==
    /\ pc = "main_a"
    /\ \E level \in Levels :
          pc' = IF level = 0 THEN "grava_begin" ELSE "main_b"
    /\ UNCHANGED <<audio_buffer, i, prev, alpha, led_red, led_green, pwm, mic,
                   raws, stored, writes, buf0, index, window, ret, cin>>

\* if (!gpio_get(BTN_B_PIN)) { sleep_ms(200); reproduz_audio(); }
main_btn_b ==
    /\ pc = "main_b"
    /\ \E level \in Levels :
          pc' = IF level = 0 THEN "reproduz_begin" ELSE "main_a"
    /\ UNCHANGED <<audio_buffer, i, prev, alpha, led_red, led_green, pwm, mic,
                   raws, stored, writes, buf0, index, window, ret, cin>>

(***************************************************************************)
(* grava_audio                                                             *)
(***************************************************************************)
\* A plausible slip: static uint16_t prev, kept from the capture before.
grava_begin_static_prev ==
    /\ pc = "grava_begin"
    /\ led_red' = TRUE
    /\ alpha' = ALPHA
    /\ i' = 0
    /\ mic' \in Signals
    /\ raws' = <<>>
    /\ stored' = {}
    /\ buf0' = audio_buffer
    /\ pc' = "grava_loop"
    /\ UNCHANGED <<audio_buffer, prev, led_green, pwm, writes, index, window,
                   ret, cin>>

\* A plausible slip: the capturing indicator is never switched on.
grava_begin_no_led ==
    /\ pc = "grava_begin"
    /\ prev' = 0
    /\ alpha' = ALPHA
    /\ i' = 0
    /\ mic' \in Signals
    /\ raws' = <<>>
    /\ stored' = {}
    /\ buf0' = audio_buffer
    /\ pc' = "grava_loop"
    /\ UNCHANGED <<audio_buffer, led_red, led_green, pwm, writes, index,
                   window, ret, cin>>

\* gpio_put(LED_RED_PIN, 1); prev = 0; alpha = 0.1f; i = 0
grava_begin ==
    /\ pc = "grava_begin"
    /\ led_red' = TRUE
    /\ prev' = 0
    /\ alpha' = ALPHA
    /\ i' = 0
    /\ mic' \in Signals
    /\ raws' = <<>>
    /\ stored' = {}
    /\ buf0' = audio_buffer
    /\ pc' = "grava_loop"
    /\ UNCHANGED <<audio_buffer, led_green, pwm, writes, index, window, ret,
                   cin>>

\* A plausible slip: the loop stops one sample short (i < MAX_SAMPLES - 1).
grava_sample_short ==
    /\ pc = "grava_loop"
    /\ i < MAX_SAMPLES
    /\ LET sample == mic[i]
           filtered == low_pass_filter(sample, prev, alpha)
       IN  /\ prev' = filtered
           /\ audio_buffer' = [audio_buffer EXCEPT ![i] = filtered]
           /\ raws' = Append(raws, sample)
    /\ stored' = stored \cup {i}
    /\ i' = IF i + 1 = MAX_SAMPLES - 1 THEN MAX_SAMPLES ELSE i + 1
    /\ UNCHANGED <<pc, alpha, led_red, led_green, pwm, mic, writes, buf0,
                   index, window, ret, cin>>

\* One iteration: sample = adc_read(); prev = low_pass_filter(sample, prev,
\* alpha); audio_buffer[i] = prev; sleep_us(...); i++
grava_sample ==
    /\ pc = "grava_loop"
    /\ i < MAX_SAMPLES
    /\ LET sample == mic[i]
           filtered == low_pass_filter(sample, prev, alpha)
       IN  /\ prev' = filtered
           /\ audio_buffer' = [audio_buffer EXCEPT ![i] = filtered]
           /\ raws' = Append(raws, sample)
    /\ stored' = stored \cup {i}
    /\ i' = i + 1
    /\ UNCHANGED <<pc, alpha, led_red, led_green, pwm, mic, writes, buf0,
                   index, window, ret, cin>>

\* Loop exit, then normalize_audio(audio_buffer, MAX_SAMPLES)
grava_normalize ==
    /\ pc = "grava_loop"
    /\ i >= MAX_SAMPLES
    /\ audio_buffer' = normalize_audio(audio_buffer, MAX_SAMPLES)
    /\ pc' = "grava_end"
    /\ UNCHANGED <<i, prev, alpha, led_red, led_green, pwm, mic, raws, stored,
                   writes, buf0, index, window, ret, cin>>

\* gpio_put(LED_RED_PIN, 0)
grava_end ==
    /\ pc = "grava_end"
    /\ led_red' = FALSE
    /\ pc' = "grava_ret"
    /\ UNCHANGED <<audio_buffer, i, prev, alpha, led_green, pwm, mic, raws,
                   stored, writes, buf0, index, window, ret, cin>>

\* Return to main, at the test of button B.
grava_return ==
    /\ pc = "grava_ret"
    /\ pc' = "main_b"
    /\ buf0' = ZeroBuffer
    /\ UNCHANGED <<audio_buffer, i, prev, alpha, led_red, led_green, pwm, mic,
                   raws, stored, writes, index, window, ret, cin>>

(***************************************************************************)
(* reproduz_audio                                                          *)
(***************************************************************************)
\* A plausible slip: the duty cycle inverted, as for an active-low output.
play_sample_inverted(buzzer_pin, value) ==
    /\ pwm' = [pwm EXCEPT ![buzzer_pin] = PWM_WRAP - value]
    /\ writes' = Append(writes, <<buzzer_pin, PWM_WRAP - value>>)

\* pwm_set_chan_level(slice, pwm_gpio_to_channel(buzzer_pin), value)
play_sample(buzzer_pin, value) ==
    /\ pwm' = [pwm EXCEPT ![buzzer_pin] = value]
    /\ writes' = Append(writes, <<buzzer_pin, value>>)

\* gpio_put(LED_GREEN_PIN, 1); i = 0
reproduz_begin ==
    /\ pc = "reproduz_begin"
    /\ led_green' = TRUE
    /\ i' = 0
    /\ writes' = <<>>
    /\ buf0' = audio_buffer
    /\ pc' = "reproduz_left"
    /\ UNCHANGED <<audio_buffer, prev, alpha, led_red, pwm, mic, raws, stored,
                   index, window, ret, cin>>

\* play_sample(BUZZER_LEFT, audio_buffer[i])
reproduz_left ==
    /\ pc = "reproduz_left"
    /\ i < MAX_SAMPLES
    /\ play_sample(BUZZER_LEFT, audio_buffer[i])
    /\ pc' = "reproduz_right"
    /\ UNCHANGED <<audio_buffer, i, prev, alpha, led_red, led_green, mic, raws,
                   stored, buf0, index, window, ret, cin>>

\* A plausible slip: the right channel is fed the next sample.
reproduz_right_skewed ==
    /\ pc = "reproduz_right"
    /\ play_sample(BUZZER_RIGHT, audio_buffer[(i + 1) % MAX_SAMPLES])
    /\ i' = i + 1
    /\ pc' = "reproduz_left"
    /\ UNCHANGED <<audio_buffer, prev, alpha, led_red, led_green, mic, raws,
                   stored, buf0, index, window, ret, cin>>

\* play_sample(BUZZER_RIGHT, audio_buffer[i]); sleep_us(...); i++
reproduz_right ==
    /\ pc = "reproduz_right"
    /\ play_sample(BUZZER_RIGHT, audio_buffer[i])
    /\ i' = i + 1
    /\ pc' = "reproduz_left"
    /\ UNCHANGED <<audio_buffer, prev, alpha, led_red, led_green, mic, raws,
                   stored, buf0, index, window, ret, cin>>

\* Loop exit, then play_sample(BUZZER_LEFT, 0)
reproduz_off_left ==
    /\ pc = "reproduz_left"
    /\ i >= MAX_SAMPLES
    /\ play_sample(BUZZER_LEFT, 0)
    /\ pc' = "reproduz_off_right"
    /\ UNCHANGED <<audio_buffer, i, prev, alpha, led_red, led_green, mic, raws,
                   stored, buf0, index, window, ret, cin>>

\* play_sample(BUZZER_RIGHT, 0)
reproduz_off_right ==
    /\ pc = "reproduz_off_right"
    /\ play_sample(BUZZER_RIGHT, 0)
    /\ pc' = "reproduz_end"
    /\ UNCHANGED <<audio_buffer, i, prev, alpha, led_red, led_green, mic, raws,
                   stored, buf0, index, window, ret, cin>>

\* gpio_put(LED_GREEN_PIN, 0)
reproduz_end ==
    /\ pc = "reproduz_end"
    /\ led_green' = FALSE
    /\ pc' = "reproduz_ret"
    /\ UNCHANGED <<audio_buffer, i, prev, alpha, led_red, pwm, mic, raws,
                   stored, writes, buf0, index, window, ret, cin>>

\* Return to main, at the test of button A.
reproduz_return ==
    /\ pc = "reproduz_ret"
    /\ pc' = "main_a"
    /\ writes' = <<>>
    /\ buf0' = ZeroBuffer
    /\ UNCHANGED <<audio_buffer, i, prev, alpha, led_red, led_green, pwm, mic,
                   raws, stored, index, window, ret, cin>>

Next ==
    \/ main_btn_a
    \/ main_btn_b
    \/ grava_begin
    \/ grava_sample
    \/ grava_normalize
    \/ grava_end
    \/ grava_return
    \/ reproduz_begin
    \/ reproduz_left
    \/ reproduz_right
    \/ reproduz_off_left
    \/ reproduz_off_right
    \/ reproduz_end
    \/ reproduz_return

Spec == Init /\ [][Next]_vars

(***************************************************************************)
(* SpecFn: normalize_audio and moving_average_filter, each applied once to *)
(* a buffer of arbitrary 16-bit samples.                                   *)
(***************************************************************************)
SampleInputs == {0, 1, 1000, UINT16 - 1}

InitFn ==
    /\ pc = "fn_call"
    /\ audio_buffer \in [Indices -> SampleInputs]
    /\ buf0 = audio_buffer
    /\ i = 0
    /\ prev = 0
    /\ alpha = ALPHA
    /\ led_red = FALSE
    /\ led_green = FALSE
    /\ pwm = [b \in Buzzers |-> 0]
    /\ mic = ZeroBuffer
    /\ raws = <<>>
    /\ stored = {}
    /\ writes = <<>>
    /\ index = 0
    /\ window = 0
    /\ ret = 0
    /\ cin = 0

\* normalize_audio(audio_buffer, MAX_SAMPLES)
fn_normalize ==
    /\ pc = "fn_call"
    /\ audio_buffer' = normalize_audio(audio_buffer, MAX_SAMPLES)
    /\ pc' = "fn_normalized"
    /\ UNCHANGED <<i, prev, alpha, led_red, led_green, pwm, mic, raws, stored,
                   writes, buf0, index, window, ret, cin>>

\* ret = moving_average_filter(audio_buffer, index, window)
fn_moving_average ==
    /\ pc = "fn_call"
    /\ \E ix \in Indices, w \in 0 .. MaxWindow :
          /\ index' = ix
          /\ window' = w
          /\ ret' = moving_average_filter(audio_buffer, ix, w)
    /\ pc' = "fn_averaged"
    /\ UNCHANGED <<audio_buffer, i, prev, alpha, led_red, led_green, pwm, mic,
                   raws, stored, writes, buf0, cin>>

NextFn ==
    \/ fn_normalize
    \/ fn_moving_average

SpecFn == InitFn /\ [][NextFn]_vars

(***************************************************************************)
(* SpecFilter: the filter of grava_audio's loop fed a constant reading,    *)
(* prev starting at 0.                                                     *)
(***************************************************************************)
FilterInputs == {0, 100, 1000, ADC_MAX}

\* 0.1f, 0.5f and 1.0f.
Alphas == {ALPHA, F32Unit \div 2, F32Unit}

InitFilter ==
    /\ pc = "filter"
    /\ cin \in FilterInputs
    /\ alpha \in Alphas
    /\ prev = 0
    /\ i = 0
    /\ audio_buffer = ZeroBuffer
    /\ buf0 = ZeroBuffer
    /\ led_red = FALSE
    /\ led_green = FALSE
    /\ pwm = [b \in Buzzers |-> 0]
    /\ mic = ZeroBuffer
    /\ raws = <<>>
    /\ stored = {}
    /\ writes = <<>>
    /\ index = 0
    /\ window = 0
    /\ ret = 0

\* prev = low_pass_filter(sample, prev, alpha), the reading being cin
filter_step ==
    /\ pc = "filter"
    /\ i < MaxFilterSteps
    /\ prev' = low_pass_filter(cin, prev, alpha)
    /\ i' = i + 1
    /\ UNCHANGED <<pc, audio_buffer, alpha, led_red, led_green, pwm, mic, raws,
                   stored, writes, buf0, index, window, ret, cin>>

NextFilter == filter_step

SpecFilter == InitFilter /\ [][NextFilter]_vars

(***************************************************************************)
(* Properties.                                                             *)
(***************************************************************************)
InCapture == pc \in {"grava_loop", "grava_end", "grava_ret"}

CaptureDone == pc \in {"grava_end", "grava_ret"}

InPlayback ==
    pc \in {"reproduz_left", "reproduz_right", "reproduz_off_right",
            "reproduz_end", "reproduz_ret"}

PlaybackDone == pc \in {"reproduz_end", "reproduz_ret"}

AllZero(seq) == \A k \in 1 .. Len(seq) : seq[k] = 0

\* The readings of a whole capture of signal sig, in order.
ReadingsOf(sig) == [k \in 1 .. MAX_SAMPLES |-> sig[k - 1]]

\* What a playback of buffer has to write, in order.
ExpectedWrites(buffer) ==
    [k \in 1 .. (2 * MAX_SAMPLES + 2) |->
        <<IF k % 2 = 1 THEN BUZZER_LEFT ELSE BUZZER_RIGHT,
          IF k <= 2 * MAX_SAMPLES THEN buffer[(k - 1) \div 2] ELSE 0>>]

\* C1: a playback writes audio_buffer[0], ..., audio_buffer[MAX_SAMPLES-1] in
\* that order, each to the left and then to the right channel, then level 0
\* once to each channel, and nothing else: at every point of a playback the
\* writes made so far are the matching prefix of that sequence, and at its end
\* they are the whole of it and both channels are at level 0.
C1_PlaybackWrites ==
    /\ pc = "reproduz_left" => Len(writes) = 2 * i
    /\ pc = "reproduz_right" => Len(writes) = 2 * i + 1
    /\ pc = "reproduz_off_right" => Len(writes) = 2 * MAX_SAMPLES + 1
    /\ InPlayback =>
          /\ Len(writes) <= 2 * MAX_SAMPLES + 2
          /\ \A k \in 1 .. Len(writes) :
                writes[k] = ExpectedWrites(audio_buffer)[k]
    /\ PlaybackDone =>
          /\ writes = ExpectedWrites(audio_buffer)
          /\ \A b \in Buzzers : pwm[b] = 0
    /\ ~InPlayback => writes = <<>> /\ \A b \in Buzzers : pwm[b] = 0

C1_Witness ==
    /\ pc = "reproduz_ret"
    /\ Len(writes) = 2 * MAX_SAMPLES + 2
    /\ \E k \in Indices : audio_buffer[k] > 0 /\ audio_buffer[k] < PWM_WRAP

MaxOf(buffer) ==
    CHOOSE m \in {buffer[k] : k \in Indices} :
        \A k \in Indices : buffer[k] <= m

C4_SilentRecording ==
    /\ (pc = "grava_loop" /\ AllZero(raws)) =>
          \A k \in stored : audio_buffer[k] = 0
    /\ (CaptureDone /\ AllZero(raws)) => audio_buffer = ZeroBuffer
    /\ (InPlayback /\ Len(raws) = MAX_SAMPLES /\ AllZero(raws)) =>
          \A k \in 1 .. Len(writes) : writes[k][2] = 0

C4_Witness ==
    /\ pc = "reproduz_ret"
    /\ Len(raws) = MAX_SAMPLES
    /\ AllZero(raws)
    /\ Len(writes) = 2 * MAX_SAMPLES + 2

\* The first three entries of audio_buffer.
Head3 == <<audio_buffer[0], audio_buffer[1], audio_buffer[2]>>

\* C5 (as amended): a capture that reads 100, 100, 100 (and silence after, if
\* the buffer is longer than 3) has stored 10, 19, 27 at positions 0..2 when
\* its loop ends, and these are 378, 719, 1023 after normalization.
C5_BurstScenario ==
    /\ (pc = "grava_loop" /\ i = MAX_SAMPLES /\ raws = ReadingsOf(Burst)) =>
          Head3 = <<10, 19, 27>>
    /\ (CaptureDone /\ raws = ReadingsOf(Burst)) =>
          Head3 = <<378, 719, 1023>>

\* C5 as claimed: the normalized buffer is 370, 703, 1023.
C5_Original ==
    /\ (pc = "grava_loop" /\ i = MAX_SAMPLES /\ raws = ReadingsOf(Burst)) =>
          Head3 = <<10, 19, 27>>
    /\ (CaptureDone /\ raws = ReadingsOf(Burst)) =>
          Head3 = <<370, 703, 1023>>

C5_Witness ==
    /\ pc = "grava_ret"
    /\ raws = ReadingsOf(Burst)
    /\ MaxOf(audio_buffer) = PWM_WRAP

\* C6 as claimed: fed a constant reading cin from prev = 0, the filtered value
\* never exceeds cin, and once it has stopped changing it is within 1 of cin.
C6_ConvergesToInput ==
    /\ prev <= cin
    /\ (i >= 1 /\ low_pass_filter(cin, prev, alpha) = prev) => cin - prev <= 1

RECURSIVE SumOver(_, _)
SumOver(buffer, S) ==
    IF S = {}
    THEN 0
    ELSE LET k == CHOOSE x \in S : TRUE
         IN  buffer[k] + SumOver(buffer, S \ {k})

\* The positions of the buffer within window of index.
WindowOf(ix, w) == {k \in Indices : ix - w <= k /\ k <= ix + w}

\* C7: moving_average_filter returns the truncated mean of the entries at the
\* positions of the buffer within window of index, and of no others, and
\* leaves the buffer as it was.
C7_MovingAverage ==
    pc = "fn_averaged" =>
        LET W == WindowOf(index, window)
            total == SumOver(buf0, W)
        IN  /\ ret * Cardinality(W) <= total
            /\ total < (ret + 1) * Cardinality(W)
            /\ audio_buffer = buf0

C7_Witness ==
    /\ pc = "fn_averaged"
    /\ index = 0
    /\ window = 5
    /\ Cardinality(WindowOf(index, window)) = 6
    /\ buf0[0] = 1000
    /\ buf0[5] = UINT16 - 1
    /\ ret > 0

\* C8: the two indicators are never on together; audio_buffer is stored into
\* only while the capturing indicator is on and the playing one off; output
\* levels are written only while the playing indicator is on and the
\* capturing one off; and no step taken with the playing indicator on changes
\* audio_buffer.
C8_TurnTaking ==
    /\ [](~(led_red /\ led_green))
    /\ [](pc = "grava_loop" => led_red)
    /\ [](pc \in {"reproduz_left", "reproduz_right", "reproduz_off_right"}
            => led_green)
    /\ [][(audio_buffer' # audio_buffer \/ (stored' # stored /\ stored' # {}))
            => (led_red /\ ~led_green)]_vars
    /\ [][(writes' # writes /\ writes' # <<>>)
            => (led_green /\ ~led_red)]_vars
    /\ [][led_green => audio_buffer' = audio_buffer]_vars

C8_Witness ==
    /\ pc = "reproduz_right"
    /\ led_green
    /\ ~led_red
    /\ Len(raws) = MAX_SAMPLES
    /\ audio_buffer # ZeroBuffer
    /\ i > 0

\* C9 (as amended): every entry of audio_buffer lies in 0 .. ADC_MAX in every
\* state, and in 0 .. 1023 in every state outside the loop of a capture.
C9_SampleRange ==
    \A k \in Indices :
        /\ audio_buffer[k] \in 0 .. ADC_MAX
        /\ pc # "grava_loop" => audio_buffer[k] \in 0 .. PWM_WRAP

\* C9 as claimed: every entry lies in 0 .. 1023 in every state.
C9_Original == \A k \in Indices : audio_buffer[k] \in 0 .. PWM_WRAP

C9_Witness ==
    /\ pc = "grava_loop"
    /\ \E k \in stored : audio_buffer[k] > PWM_WRAP

\* The filtered values of the readings, in order, the filter starting from 0.
RECURSIVE FilterFold(_, _, _)
FilterFold(readings, k, acc) ==
    IF k > Len(readings)
    THEN acc
    ELSE FilterFold(readings, k + 1,
                    Append(acc,
                           low_pass_filter(readings[k],
                                           IF k = 1 THEN 0 ELSE acc[k - 1],
                                           ALPHA)))

FilteredFromZero(readings) == FilterFold(readings, 1, <<>>)

\* The buffer a capture of these readings leaves when nothing precedes it.
FreshCapture(readings) ==
    LET fs == FilteredFromZero(readings)
    IN  normalize_audio([k \in Indices |-> fs[k + 1]], MAX_SAMPLES)

\* C10: whatever was captured or played before, what a capture stores, and
\* the buffer it leaves, are those of the same readings filtered from 0.
C10_NoFilterStateLeak ==
    /\ pc = "grava_loop" =>
          LET fs == FilteredFromZero(raws)
          IN  /\ prev = IF i = 0 THEN 0 ELSE fs[i]
              /\ \A k \in stored : audio_buffer[k] = fs[k + 1]
    /\ CaptureDone => audio_buffer = FreshCapture(raws)

C10_Witness ==
    /\ pc = "grava_ret"
    /\ buf0 # ZeroBuffer
    /\ buf0 # audio_buffer
    /\ \E k \in 1 .. Len(raws) : raws[k] > 0

====
